---------------------------- MODULE Spec2Model ----------------------------
(***************************************************************************)
(* A model of src/src/timer.py: the command line entry point (main), the   *)
(* duration parser, the key reader and the countdown loop (run_timer).     *)
(*                                                                         *)
(* Strings are sequences of one-character strings.  The monotonic clock    *)
(* and every duration are integers counted in clock units, Res units to    *)
(* the second; floating point rounding is not modelled.                    *)
(***************************************************************************)
EXTENDS Integers, Sequences, FiniteSets, TLC

VARIABLES
    pc,                    \* where the program is
    value,                 \* main's duration argument, a string
    tick,                  \* main's --tick option
    parsed,                \* outcome of parse_duration(value)
    error,                 \* message of the exception that ended the program
    use_windows,           \* KeyReader._use_windows
    term,                  \* mode of the controlling terminal
    old_settings,          \* KeyReader._old_settings
    fdbuf,                 \* keys typed and still in the terminal's queue
    pybuf,                 \* keys sys.stdin has read ahead into its buffer
    clock,                 \* the monotonic clock at the program's latest reading
    start,                 \* run_timer's local start
    elapsed_before_pause,  \* run_timer's local elapsed_before_pause
    paused,                \* run_timer's local paused
    key,                   \* what keys.read_key() returned, while the tick uses it
    elapsed,               \* run_timer's local elapsed
    frame,                 \* what the latest live.update() displays
    out,                   \* what the latest step emitted
    times_up,              \* whether the "Time's up!" panel was printed
    blocked,               \* whether the latest read_key() had to wait for input
    ranFor                 \* history: clock time spent Running so far

vars == <<pc, value, tick, parsed, error, use_windows, term, old_settings,
          fdbuf, pybuf, clock, start, elapsed_before_pause, paused, key,
          elapsed, frame, out, times_up, blocked, ranFor>>

None == "None"

(***************************************************************************)
(* Bounds of the model.                                                    *)
(***************************************************************************)
\* clock units per second
Res == 2
\* the monotonic clock's reading when the program starts
ClockOrigin == 1
\* the clock is followed for this many units past its origin
MaxRun == 4
\* the most the clock advances between two of the program's readings
MaxAdvance == 2
\* the most keys typed and not yet returned by read_key
MaxPending == 2
\* longest string of ParseAlphabet given to parse_duration
MaxLen == 3
\* largest number rendered into a duration string
MaxNum == 2

(***************************************************************************)
(* Strings.                                                                *)
(***************************************************************************)
Digits == {"0", "1", "2", "3", "4", "5", "6", "7", "8", "9"}

DigitVal(c) ==
    CASE c = "0" -> 0 [] c = "1" -> 1 [] c = "2" -> 2 [] c = "3" -> 3
      [] c = "4" -> 4 [] c = "5" -> 5 [] c = "6" -> 6 [] c = "7" -> 7
      [] c = "8" -> 8 [] c = "9" -> 9

\* str.isspace for one character
IsSpace(c) == c \in {" ", "\t", "\n"}

\* str.lower for one character
Lower(c) ==
    CASE c = "H" -> "h" [] c = "M" -> "m" [] c = "S" -> "s"
      [] c = "Q" -> "q" [] c = "P" -> "p" [] c = "A" -> "a"
      [] OTHER -> c

RECURSIVE LStrip(_)
LStrip(s) ==
    IF s # <<>> /\ IsSpace(Head(s)) THEN LStrip(Tail(s)) ELSE s

RECURSIVE RStrip(_)
RStrip(s) ==
    IF s # <<>> /\ IsSpace(s[Len(s)]) THEN RStrip(SubSeq(s, 1, Len(s) - 1))
    ELSE s

\* str.strip()
Strip(s) == RStrip(LStrip(s))

\* str.isdigit(): not empty and digits only
IsDigitStr(s) == s # <<>> /\ \A i \in 1..Len(s) : s[i] \in Digits

\* int(s) of a string of digits
RECURSIVE IntOf(_)
IntOf(s) ==
    IF s = <<>> THEN 0
    ELSE 10 * IntOf(SubSeq(s, 1, Len(s) - 1)) + DigitVal(s[Len(s)])

\* str.split(sep): the pieces between the separators, empty ones included
RECURSIVE SplitAcc(_, _, _)
SplitAcc(s, sep, piece) ==
    IF s = <<>> THEN <<piece>>
    ELSE IF Head(s) = sep THEN <<piece>> \o SplitAcc(Tail(s), sep, <<>>)
    ELSE SplitAcc(Tail(s), sep, Append(piece, Head(s)))

Split(s, sep) == SplitAcc(s, sep, <<>>)

\* str(n) for n >= 0
RECURSIVE Str(_)
Str(n) ==
    LET digit == <<"0", "1", "2", "3", "4", "5", "6", "7", "8", "9">> IN
    IF n < 10 THEN <<digit[n + 1]>>
    ELSE Str(n \div 10) \o <<digit[(n % 10) + 1]>>

\* f"{n:02d}"
Pad2(n) == IF n < 10 THEN <<"0">> \o Str(n) ELSE Str(n)

(***************************************************************************)
(* DURATION_PATTERN: optional blanks, an optional <digits>h, blanks, an    *)
(* optional <digits>m, blanks, an optional <digits>s, blanks, the end;     *)
(* letters in either case.  A group that can match at its place does       *)
(* match there: skipping it leaves a digit no later part can take.         *)
(***************************************************************************)
RECURSIVE SkipSpace(_, _)
SkipSpace(s, i) ==
    IF i <= Len(s) /\ IsSpace(s[i]) THEN SkipSpace(s, i + 1) ELSE i

RECURSIVE SkipDigits(_, _)
SkipDigits(s, i) ==
    IF i <= Len(s) /\ s[i] \in Digits THEN SkipDigits(s, i + 1) ELSE i

\* (?:(\d+)<letter>)? tried at position i; no digits when the group is absent
MatchGroup(s, i, letter) ==
    LET j == SkipDigits(s, i) IN
    IF j > i /\ j <= Len(s) /\ Lower(s[j]) = letter
    THEN [digits |-> SubSeq(s, i, j - 1), next |-> j + 1]
    ELSE [digits |-> <<>>, next |-> i]

DURATION_PATTERN(s) ==
    LET h  == MatchGroup(s, SkipSpace(s, 1), "h")
        m  == MatchGroup(s, SkipSpace(s, h.next), "m")
        sc == MatchGroup(s, SkipSpace(s, m.next), "s")
    IN  IF SkipSpace(s, sc.next) = Len(s) + 1
        THEN [match |-> TRUE, hours |-> h.digits, minutes |-> m.digits,
              seconds |-> sc.digits]
        ELSE [match |-> FALSE]

(***************************************************************************)
(* parse_duration and validate_duration.  A call returns Return(n) or      *)
(* raises a ValueError, Raise(message).                                    *)
(***************************************************************************)
Return(n) == [ok |-> TRUE, seconds |-> n]
Raise(msg) == [ok |-> FALSE, error |-> msg]

\* int(match.group(g) or 0)
GroupInt(g) == IF g = <<>> THEN 0 ELSE IntOf(g)

\* as ColonForm, with two components read as hours and minutes
ColonForm_HoursMinutes(v) ==
    LET parts == [i \in DOMAIN Split(v, ":") |-> Strip(Split(v, ":")[i])] IN
    IF ~ \A i \in DOMAIN parts : IsDigitStr(parts[i])
    THEN Raise("Invalid time format")
    ELSE IF Len(parts) = 2
    THEN Return(IntOf(parts[1]) * 3600 + IntOf(parts[2]) * 60)
    ELSE IF Len(parts) = 3
    THEN Return(IntOf(parts[1]) * 3600 + IntOf(parts[2]) * 60 + IntOf(parts[3]))
    ELSE Raise("Invalid time format")

ColonForm(v) ==
    LET parts == [i \in DOMAIN Split(v, ":") |-> Strip(Split(v, ":")[i])] IN
    IF ~ \A i \in DOMAIN parts : IsDigitStr(parts[i])
    THEN Raise("Invalid time format")
    ELSE IF Len(parts) = 2
    THEN Return(IntOf(parts[1]) * 60 + IntOf(parts[2]))
    ELSE IF Len(parts) = 3
    THEN Return(IntOf(parts[1]) * 3600 + IntOf(parts[2]) * 60 + IntOf(parts[3]))
    ELSE Raise("Invalid time format")

SuffixForm(v) ==
    LET match == DURATION_PATTERN(v) IN
    IF ~ match.match THEN Raise("Invalid duration")
    ELSE Return(GroupInt(match.hours) * 3600 + GroupInt(match.minutes) * 60
                + GroupInt(match.seconds))

parse_duration(raw) ==
    LET v == Strip(raw) IN
    IF v = <<>> THEN Raise("Empty duration")
    ELSE IF \E i \in 1..Len(v) : v[i] = ":" THEN ColonForm(v)
    ELSE IF IsDigitStr(v) THEN Return(IntOf(v))
    ELSE SuffixForm(v)

\* as validate_duration, rejecting only the negative values
validate_duration_Negative(seconds) ==
    IF seconds < 0 THEN Raise("Duration must be greater than 0")
    ELSE [ok |-> TRUE]

validate_duration(seconds) ==
    IF seconds <= 0 THEN Raise("Duration must be greater than 0")
    ELSE [ok |-> TRUE]

(***************************************************************************)
(* KeyReader.  The terminal's mode is "cooked" or "cbreak".  On POSIX      *)
(* sys.stdin is a buffered text stream: select() looks at the descriptor   *)
(* (fdbuf) only, while read(1) serves the stream's buffer (pybuf) first    *)
(* and otherwise fills it with everything the descriptor holds.            *)
(***************************************************************************)
\* KeyReader.__enter__: the saved settings and the terminal's mode after it
KeyReaderEnter(win, mode) ==
    IF win THEN [old_settings |-> None, term |-> mode]
    ELSE [old_settings |-> mode, term |-> "cbreak"]

\* as KeyReaderExit, restoring only where nothing was saved
KeyReaderExit_WrongPlatform(win, old, mode) ==
    IF win /\ old # None THEN old ELSE mode

\* KeyReader.__exit__: the terminal's mode after it
KeyReaderExit(win, old, mode) ==
    IF ~win /\ old # None THEN old ELSE mode

\* sys.stdin.read(1); it waits when neither the buffer nor the descriptor
\* holds a character
StdinRead1(fd, py) ==
    IF py # <<>>
    THEN [key |-> Head(py), fdbuf |-> fd, pybuf |-> Tail(py), blocked |-> FALSE]
    ELSE IF fd # <<>>
    THEN [key |-> Head(fd), fdbuf |-> <<>>, pybuf |-> Tail(fd), blocked |-> FALSE]
    ELSE [key |-> None, fdbuf |-> fd, pybuf |-> py, blocked |-> TRUE]

\* KeyReader.read_key
read_key(win, fd, py) ==
    IF win
    THEN IF fd # <<>>
         THEN [key |-> Head(fd), fdbuf |-> Tail(fd), pybuf |-> py, blocked |-> FALSE]
         ELSE [key |-> None, fdbuf |-> fd, pybuf |-> py, blocked |-> FALSE]
    ELSE IF fd # <<>>
         THEN StdinRead1(fd, py)
         ELSE [key |-> None, fdbuf |-> fd, pybuf |-> py, blocked |-> FALSE]

(***************************************************************************)
(* The body of run_timer's loop.                                           *)
(***************************************************************************)
Min(a, b) == IF a <= b THEN a ELSE b

\* seconds as clock units
Units(seconds) == seconds * Res

\* as KeyStep, resuming without start = now
KeyStep_NoRestart(st, k, now) ==
    LET same == [quit |-> FALSE, start |-> st.start,
                 elapsed_before_pause |-> st.elapsed_before_pause,
                 paused |-> st.paused]
        resumed == [same EXCEPT !.paused = FALSE]
    IN  IF k = None THEN same
        ELSE IF Lower(k) = "q" THEN [same EXCEPT !.quit = TRUE]
        ELSE IF Lower(k) \in {"p", " "}
        THEN IF st.paused THEN resumed
             ELSE [same EXCEPT
                     !.elapsed_before_pause =
                         st.elapsed_before_pause + (now - st.start),
                     !.paused = TRUE]
        ELSE IF Lower(k) = "s" /\ st.paused THEN resumed
        ELSE same

\* as KeyStep, without key = key.lower()
KeyStep_NoLower(st, k, now) ==
    LET same == [quit |-> FALSE, start |-> st.start,
                 elapsed_before_pause |-> st.elapsed_before_pause,
                 paused |-> st.paused]
        resumed == [same EXCEPT !.start = now, !.paused = FALSE]
    IN  IF k = None THEN same
        ELSE IF k = "q" THEN [same EXCEPT !.quit = TRUE]
        ELSE IF k \in {"p", " "}
        THEN IF st.paused THEN resumed
             ELSE [same EXCEPT
                     !.elapsed_before_pause =
                         st.elapsed_before_pause + (now - st.start),
                     !.paused = TRUE]
        ELSE IF k = "s" /\ st.paused THEN resumed
        ELSE same

\* as KeyStep, pausing with = in place of +=
KeyStep_PauseOverwrites(st, k, now) ==
    LET same == [quit |-> FALSE, start |-> st.start,
                 elapsed_before_pause |-> st.elapsed_before_pause,
                 paused |-> st.paused]
        resumed == [same EXCEPT !.start = now, !.paused = FALSE]
    IN  IF k = None THEN same
        ELSE IF Lower(k) = "q" THEN [same EXCEPT !.quit = TRUE]
        ELSE IF Lower(k) \in {"p", " "}
        THEN IF st.paused THEN resumed
             ELSE [same EXCEPT
                     !.elapsed_before_pause =
                         now - st.start,
                     !.paused = TRUE]
        ELSE IF Lower(k) = "s" /\ st.paused THEN resumed
        ELSE same

\* as KeyStep, with s handled as p is
KeyStep_StartToggles(st, k, now) ==
    LET same == [quit |-> FALSE, start |-> st.start,
                 elapsed_before_pause |-> st.elapsed_before_pause,
                 paused |-> st.paused]
        resumed == [same EXCEPT !.start = now, !.paused = FALSE]
    IN  IF k = None THEN same
        ELSE IF Lower(k) = "q" THEN [same EXCEPT !.quit = TRUE]
        ELSE IF Lower(k) \in {"p", " ", "s"}
        THEN IF st.paused THEN resumed
             ELSE [same EXCEPT
                     !.elapsed_before_pause =
                         st.elapsed_before_pause + (now - st.start),
                     !.paused = TRUE]
        ELSE IF Lower(k) = "s" /\ st.paused THEN resumed
        ELSE same

\* as KeyStep, resuming on every other key
KeyStep_AnyKeyResumes(st, k, now) ==
    LET same == [quit |-> FALSE, start |-> st.start,
                 elapsed_before_pause |-> st.elapsed_before_pause,
                 paused |-> st.paused]
        resumed == [same EXCEPT !.start = now, !.paused = FALSE]
    IN  IF k = None THEN same
        ELSE IF Lower(k) = "q" THEN [same EXCEPT !.quit = TRUE]
        ELSE IF Lower(k) \in {"p", " "}
        THEN IF st.paused THEN resumed
             ELSE [same EXCEPT
                     !.elapsed_before_pause =
                         st.elapsed_before_pause + (now - st.start),
                     !.paused = TRUE]
        ELSE IF st.paused THEN resumed
        ELSE same

\* as KeyStep, adding now - start on resuming too
KeyStep_ResumeAccumulates(st, k, now) ==
    LET same == [quit |-> FALSE, start |-> st.start,
                 elapsed_before_pause |-> st.elapsed_before_pause,
                 paused |-> st.paused]
        resumed == [same EXCEPT !.start = now, !.paused = FALSE,
                                !.elapsed_before_pause =
                                    st.elapsed_before_pause + (now - st.start)]
    IN  IF k = None THEN same
        ELSE IF Lower(k) = "q" THEN [same EXCEPT !.quit = TRUE]
        ELSE IF Lower(k) \in {"p", " "}
        THEN IF st.paused THEN resumed
             ELSE [same EXCEPT
                     !.elapsed_before_pause =
                         st.elapsed_before_pause + (now - st.start),
                     !.paused = TRUE]
        ELSE IF Lower(k) = "s" /\ st.paused THEN resumed
        ELSE same

\* lines 157-170: the key's effect on start, elapsed_before_pause, paused
KeyStep(st, k, now) ==
    LET same == [quit |-> FALSE, start |-> st.start,
                 elapsed_before_pause |-> st.elapsed_before_pause,
                 paused |-> st.paused]
        resumed == [same EXCEPT !.start = now, !.paused = FALSE]
    IN  IF k = None THEN same
        ELSE IF Lower(k) = "q" THEN [same EXCEPT !.quit = TRUE]
        ELSE IF Lower(k) \in {"p", " "}
        THEN IF st.paused THEN resumed
             ELSE [same EXCEPT
                     !.elapsed_before_pause =
                         st.elapsed_before_pause + (now - st.start),
                     !.paused = TRUE]
        ELSE IF Lower(k) = "s" /\ st.paused THEN resumed
        ELSE same

\* as Elapsed, without the test of paused
Elapsed_IgnoresPause(st, now) ==
    st.elapsed_before_pause + (now - st.start)

\* as Elapsed, without the time since start
Elapsed_OnlyBeforePause(st, now) ==
    st.elapsed_before_pause

\* lines 172-175
Elapsed(st, now) ==
    IF st.paused THEN st.elapsed_before_pause
    ELSE st.elapsed_before_pause + (now - st.start)

\* as Percent, without min(100.0, ...)
Percent_Unclamped(remaining, total) ==
    IF total = 0 THEN [num |-> 0, den |-> 1]
    ELSE LET den == IF total > 0 THEN total ELSE -total
             raw == IF total > 0 THEN 100 * (total - remaining)
                    ELSE -100 * (total - remaining)
         IN  [num |-> raw, den |-> den]

\* min(100.0, (1 - remaining / total) * 100) as the fraction num / den, den > 0
Percent(remaining, total) ==
    IF total = 0 THEN [num |-> 0, den |-> 1]
    ELSE LET den == IF total > 0 THEN total ELSE -total
             raw == IF total > 0 THEN 100 * (total - remaining)
                    ELSE -100 * (total - remaining)
         IN  [num |-> Min(100 * den, raw), den |-> den]

\* int(x): the float x = num / den, den > 0, truncated toward zero
TruncDiv(num, den) ==
    IF num >= 0 THEN num \div den ELSE -((-num) \div den)

\* hours, minutes and seconds as the clock string of lines 68-70
ClockString(total_seconds) ==
    LET hours == total_seconds \div 3600
        minutes == (total_seconds % 3600) \div 60
        seconds == total_seconds % 60
    IN  IF hours > 0
        THEN Pad2(hours) \o <<":">> \o Pad2(minutes) \o <<":">> \o Pad2(seconds)
        ELSE Pad2(minutes) \o <<":">> \o Pad2(seconds)

\* as format_time, with int(total_seconds) in place of int(total_seconds + 0.5)
format_time_NoRounding(units) ==
    LET whole == TruncDiv(units, Res) IN
    ClockString(IF whole > 0 THEN whole ELSE 0)

\* format_time of units / Res seconds: units / Res + 0.5 = (2 * units + Res) /
\* (2 * Res)
format_time(units) ==
    LET whole == TruncDiv(2 * units + Res, 2 * Res) IN
    ClockString(IF whole > 0 THEN whole ELSE 0)

build_header(remaining, total, is_paused) ==
    [remaining |-> remaining,
     time |-> format_time(remaining),
     percent |-> Percent(remaining, total),
     status |-> IF is_paused THEN "Paused" ELSE "Running"]

\* as Frame, with completed=elapsed
Frame_Unclamped(el, duration, is_paused) ==
    [header |-> build_header(duration - el, duration, is_paused),
     completed |-> el]

\* lines 177-181: the frame given to live.update
Frame(el, duration, is_paused) ==
    [header |-> build_header(duration - el, duration, is_paused),
     completed |-> Min(el, duration)]

\* as Expired, with remaining < 0
Expired_Strict(remaining) == remaining < 0

\* line 182
Expired(remaining) == remaining <= 0

\* no frame has been displayed yet
NoFrame ==
    [header |-> [remaining |-> 0, time |-> <<>>,
                 percent |-> [num |-> 0, den |-> 1], status |-> None],
     completed |-> 0]

(***************************************************************************)
(* The program's inputs.                                                   *)
(***************************************************************************)
\* a float option: a number of seconds, or NaN
Float(x) == [nan |-> FALSE, x |-> x]
NaN == [nan |-> TRUE, x |-> 0]

\* duration arguments given to main
DurationArgs ==
    { <<>>, <<" ">>, <<"a", "b", "c">>, <<"0">>, <<"1">>, <<"0", ":", "0", "2">>,
      <<"1", ":">> }

\* --tick values given to main, in seconds
TickArgs == {Float(-1), Float(0), Float(1), NaN}

Keys == {"q", "Q", "p", "P", " ", "s", "S", "x"}

LastClock == ClockOrigin + MaxRun

Init ==
    /\ pc = "main"
    /\ value \in DurationArgs
    /\ tick \in TickArgs
    /\ parsed = Raise(None)
    /\ error = None
    /\ use_windows \in BOOLEAN
    /\ term = "cooked"
    /\ old_settings = None
    /\ fdbuf = <<>>
    /\ pybuf = <<>>
    /\ clock = ClockOrigin
    /\ start = 0
    /\ elapsed_before_pause = 0
    /\ paused = FALSE
    /\ key = None
    /\ elapsed = 0
    /\ frame = NoFrame
    /\ out = <<>>
    /\ times_up = FALSE
    /\ blocked = FALSE
    /\ ranFor = 0

terminal == <<term, old_settings>>
stdin == <<fdbuf, pybuf>>
locals == <<start, elapsed_before_pause, paused, key, elapsed>>
display == <<frame, out, times_up>>
args == <<value, tick, use_windows>>

(***************************************************************************)
(* main.                                                                   *)
(***************************************************************************)
\* line 196; a ValueError becomes typer.BadParameter (lines 198-199)
MainParse ==
    /\ pc = "main"
    /\ parsed' = parse_duration(value)
    /\ IF parsed'.ok
       THEN pc' = "validate" /\ error' = error
       ELSE pc' = "bad_parameter" /\ error' = parsed'.error
    /\ UNCHANGED <<args, terminal, stdin, clock, locals, display, blocked, ranFor>>

\* line 197
MainValidate ==
    /\ pc = "validate"
    /\ LET v == validate_duration(parsed.seconds) IN
       IF v.ok
       THEN pc' = "check_tick" /\ error' = error
       ELSE pc' = "bad_parameter" /\ error' = v.error
    /\ UNCHANGED <<args, parsed, terminal, stdin, clock, locals, display,
                   blocked, ranFor>>

\* as TickNotPositive, with tick < 0
TickNotPositive_Strict(t) == ~t.nan /\ t.x < 0

\* tick <= 0 for a float; every comparison with NaN is false
TickNotPositive(t) == ~t.nan /\ t.x <= 0

\* lines 201-204
MainTick ==
    /\ pc = "check_tick"
    /\ IF TickNotPositive(tick)
       THEN pc' = "bad_parameter" /\ error' = "--tick must be greater than 0"
       ELSE pc' = "run_timer" /\ error' = error
    /\ UNCHANGED <<args, parsed, terminal, stdin, clock, locals, display,
                   blocked, ranFor>>

(***************************************************************************)
(* run_timer.                                                              *)
(***************************************************************************)
\* lines 137-152: int(1 / max(tick, 0.05)) raises ValueError for a NaN tick
RunTimerSetup ==
    /\ pc = "run_timer"
    /\ IF tick.nan
       THEN /\ pc' = "raised"
            /\ error' = "ValueError"
            /\ UNCHANGED <<start, elapsed_before_pause, paused>>
       ELSE /\ pc' = "enter"
            /\ error' = error
            /\ start' = clock
            /\ elapsed_before_pause' = 0
            /\ paused' = FALSE
    /\ UNCHANGED <<args, parsed, terminal, stdin, clock, key, elapsed, display,
                   blocked, ranFor>>

\* line 153: KeyReader.__enter__ returns
EnterKeyReader ==
    /\ pc = "enter"
    /\ LET e == KeyReaderEnter(use_windows, term) IN
       /\ old_settings' = e.old_settings
       /\ term' = e.term
    /\ pc' = "loop"
    /\ UNCHANGED <<args, parsed, error, stdin, clock, locals, display,
                   blocked, ranFor>>

\* as EnterFails, with the error caught and the loop entered all the same
EnterFails_Swallowed ==
    /\ pc = "enter"
    /\ ~use_windows
    /\ old_settings' \in {None, term}
    /\ pc' = "loop"
    /\ error' = "termios.error"
    /\ UNCHANGED <<args, parsed, term, stdin, clock, locals, display,
                   blocked, ranFor>>

\* line 153: tcgetattr or setcbreak raises termios.error; __exit__ is not run
EnterFails ==
    /\ pc = "enter"
    /\ ~use_windows
    /\ old_settings' \in {None, term}
    /\ pc' = "raised"
    /\ error' = "termios.error"
    /\ UNCHANGED <<args, parsed, term, stdin, clock, locals, display,
                   blocked, ranFor>>

\* lines 155-186: one iteration of the loop, up to the sleep or out of the
\* loop, with now the clock reading of line 155; ranFor adds the time since
\* the reading before when the timer was Running over that interval.
TickAt(now) ==
    /\ pc = "loop"
    /\ LET r == read_key(use_windows, fdbuf, pybuf)
           st == KeyStep([start |-> start,
                          elapsed_before_pause |-> elapsed_before_pause,
                          paused |-> paused], r.key, now)
           el == Elapsed(st, now)
           total == Units(parsed.seconds)
       IN  /\ clock' = now
           /\ key' = r.key
           /\ fdbuf' = r.fdbuf
           /\ pybuf' = r.pybuf
           /\ blocked' = r.blocked
           /\ start' = st.start
           /\ elapsed_before_pause' = st.elapsed_before_pause
           /\ paused' = st.paused
           /\ ranFor' = ranFor + (IF paused THEN 0 ELSE now - clock)
           /\ IF st.quit
              THEN /\ pc' = "quit"
                   /\ term' = KeyReaderExit(use_windows, old_settings, term)
                   /\ out' = <<>>
                   /\ UNCHANGED <<elapsed, frame, times_up>>
              ELSE /\ elapsed' = el
                   /\ frame' = Frame(el, total, st.paused)
                   /\ IF Expired(total - el)
                      THEN /\ pc' = "finished"
                           /\ term' = KeyReaderExit(use_windows,
                                                    old_settings, term)
                           /\ out' = <<"frame", "Time's up!">>
                           /\ times_up' = TRUE
                      ELSE /\ pc' = "sleep"
                           /\ term' = term
                           /\ out' = <<"frame">>
                           /\ times_up' = times_up
    /\ UNCHANGED <<args, parsed, error, old_settings>>

\* line 155: the clock has advanced by d since the reading before
Tick ==
    \E d \in 0..MaxAdvance :
        /\ clock + d <= LastClock
        /\ TickAt(clock + d)

\* line 184: time.sleep(tick) returns; the key of the tick before is dead,
\* line 156 assigns key before any use
Sleep ==
    /\ pc = "sleep"
    /\ pc' = "loop"
    /\ key' = None
    /\ out' = <<>>
    /\ UNCHANGED <<args, parsed, error, terminal, stdin, clock, start,
                   elapsed_before_pause, paused, elapsed, frame, times_up,
                   blocked, ranFor>>

\* the user presses a key at some time before the next tick reads the keyboard
TypeKey ==
    /\ pc = "loop"
    /\ Len(fdbuf) + Len(pybuf) < MaxPending
    /\ \E c \in Keys : fdbuf' = Append(fdbuf, c)
    /\ UNCHANGED <<pc, args, parsed, error, terminal, pybuf, clock, locals,
                   display, blocked, ranFor>>

\* an exception inside the loop (KeyboardInterrupt during the sleep, an error
\* of the display) leaves the with block of line 153, which runs
\* KeyReader.__exit__
LoopRaises ==
    /\ pc = "sleep"
    /\ pc' = "raised"
    /\ error' = "Exception"
    /\ term' = KeyReaderExit(use_windows, old_settings, term)
    /\ out' = <<>>
    /\ UNCHANGED <<args, parsed, old_settings, stdin, clock, locals, frame,
                   times_up, blocked, ranFor>>

Next ==
    \/ MainParse
    \/ MainValidate
    \/ MainTick
    \/ RunTimerSetup
    \/ EnterKeyReader
    \/ EnterFails
    \/ Tick
    \/ Sleep
    \/ TypeKey
    \/ LoopRaises

Spec == Init /\ [][Next]_vars

(***************************************************************************)
(* parse_duration and validate_duration called on their own: every string  *)
(* of ParseAlphabet up to MaxLen characters, the strings of the            *)
(* documentation, every accepted form written out for numbers up to        *)
(* MaxNum, and validate_duration on every integer of -MaxNum..MaxNum.      *)
(***************************************************************************)
ParseAlphabet == {"0", "1", ":", "h", "m", "s", "M", " ", "a"}

RECURSIVE StringsUpTo(_, _)
StringsUpTo(alphabet, n) ==
    IF n = 0 THEN {<<>>}
    ELSE LET shorter == StringsUpTo(alphabet, n - 1) IN
         shorter \cup {Append(t, c) : t \in shorter, c \in alphabet}

Nums == 0..MaxNum

\* <h>h<m>m<s>s: the groups named in present, in that order, joined by gap
Suffixed(h, m, sc, present, letters, gap) ==
    LET hp == IF "h" \in present THEN Str(h) \o <<letters[1]>> ELSE <<>>
        mp == IF "m" \in present THEN Str(m) \o <<letters[2]>> ELSE <<>>
        sp == IF "s" \in present THEN Str(sc) \o <<letters[3]>> ELSE <<>>
        g1 == IF hp # <<>> /\ (mp # <<>> \/ sp # <<>>) THEN gap ELSE <<>>
        g2 == IF mp # <<>> /\ sp # <<>> THEN gap ELSE <<>>
    IN  hp \o g1 \o mp \o g2 \o sp

Groupings == (SUBSET {"h", "m", "s"}) \ {{}}
Letterings == {<<"h", "m", "s">>, <<"H", "M", "S">>, <<"h", "M", "s">>}
Gaps == {<<>>, <<" ">>}

DocumentedInputs ==
    { <<"9", "0">>, <<"2", "m", "3", "0", "s">>, <<"0", "0", ":", "1", "0">>,
      <<"1", ":", "0", "2", ":", "0", "3">>, <<"a", "b", "c">>,
      <<"1", ":", "2", ":", "0", ":", "1">>, <<" ", "\t">> }

SuffixedSeconds(h, m, sc, present) ==
    (IF "h" \in present THEN h * 3600 ELSE 0)
    + (IF "m" \in present THEN m * 60 ELSE 0)
    + (IF "s" \in present THEN sc ELSE 0)

\* every accepted form written out, with the seconds it denotes
Expected ==
    {<<Str(n[1]) \o <<":">> \o Str(n[2]), n[1] * 60 + n[2]>> : n \in Nums \X Nums}
    \cup {<<Pad2(n[1]) \o <<":">> \o Pad2(n[2]), n[1] * 60 + n[2]>> :
             n \in Nums \X Nums}
    \cup {<<Str(n[1]) \o <<":">> \o Pad2(n[2]) \o <<":">> \o Pad2(n[3]),
            n[1] * 3600 + n[2] * 60 + n[3]>> : n \in Nums \X Nums \X Nums}
    \cup {<<Str(n), n>> : n \in Nums}
    \cup UNION {{<<Suffixed(n[1], n[2], n[3], g, l, gap),
                   SuffixedSeconds(n[1], n[2], n[3], g)>> :
                    n \in Nums \X Nums \X Nums, g \in Groupings} :
                l \in Letterings, gap \in Gaps}

\* groups out of the order h, m, s
OutOfOrder ==
    {Str(n[2]) \o <<"s">> \o Str(n[1]) \o <<"m">> : n \in Nums \X Nums}
    \cup {Str(n[2]) \o <<"m">> \o Str(n[1]) \o <<"h">> : n \in Nums \X Nums}

ParseInputs ==
    StringsUpTo(ParseAlphabet, MaxLen) \cup DocumentedInputs
    \cup {e[1] : e \in Expected} \cup OutOfOrder

InitParse ==
    /\ \/ pc = "main" /\ value \in ParseInputs /\ parsed = Raise(None)
       \/ pc = "call_validate" /\ value = <<>>
          /\ parsed \in {Return(n) : n \in -MaxNum..MaxNum}
    /\ tick = Float(1)
    /\ error = None
    /\ use_windows = FALSE
    /\ term = "cooked"
    /\ old_settings = None
    /\ fdbuf = <<>>
    /\ pybuf = <<>>
    /\ clock = ClockOrigin
    /\ start = 0
    /\ elapsed_before_pause = 0
    /\ paused = FALSE
    /\ key = None
    /\ elapsed = 0
    /\ frame = NoFrame
    /\ out = <<>>
    /\ times_up = FALSE
    /\ blocked = FALSE
    /\ ranFor = 0

\* validate_duration(parsed.seconds) called on its own
ValidateCall ==
    /\ pc = "call_validate"
    /\ LET v == validate_duration(parsed.seconds) IN
       IF v.ok
       THEN pc' = "validate_returned" /\ error' = error
       ELSE pc' = "validate_raised" /\ error' = v.error
    /\ UNCHANGED <<args, parsed, terminal, stdin, clock, locals, display,
                   blocked, ranFor>>

NextParse ==
    \/ MainParse
    \/ MainValidate
    \/ ValidateCall

SpecParse == InitParse /\ [][NextParse]_vars

(***************************************************************************)
(* Claims about parse_duration and validate_duration, under SpecParse.     *)
(***************************************************************************)
\* parse_duration(value) has been called
Parsed == pc \in {"validate", "check_tick", "bad_parameter"}

\* C9: parse_duration returns m*60+s for mm:ss, h*3600+m*60+s for hh:mm:ss,
\* n for the bare integer n, and the sum of the groups present for
\* <h>h<m>m<s>s in either case, groups out of the order h, m, s being
\* refused; "90" gives 90, "2m30s" 150, "00:10" 10 and "1:02:03" 3723; and
\* no returned value is negative.
C9_ParseValues ==
    Parsed =>
      /\ parsed.ok => parsed.seconds \in Nat
      /\ value = <<"9", "0">> => parsed = Return(90)
      /\ value = <<"2", "m", "3", "0", "s">> => parsed = Return(150)
      /\ value = <<"0", "0", ":", "1", "0">> => parsed = Return(10)
      /\ value = <<"1", ":", "0", "2", ":", "0", "3">> => parsed = Return(3723)
      /\ \A e \in Expected : value = e[1] => parsed = Return(e[2])
      /\ value \in OutOfOrder => ~parsed.ok

\* C9 witness: "2m30s" was parsed to 150 seconds
C9_Witness ==
    /\ pc = "validate"
    /\ value = <<"2", "m", "3", "0", "s">>
    /\ parsed.ok /\ parsed.seconds = 150

Blanks == {" ", "\t", "\n"}
AllBlank(v) == \A i \in 1..Len(v) : v[i] \in Blanks
Colons(v) == Cardinality({i \in 1..Len(v) : v[i] = ":"})
NonDigitInColonForm(v) ==
    \E i \in 1..Len(v) : v[i] \notin Digits \cup Blanks \cup {":"}
TooSmall == "Duration must be greater than 0"

\* C10: parse_duration refuses an empty or blank string as empty and a string
\* of no grammar ("abc", a colon form of other than 2 or 3 components or
\* with a non-digit in it) as invalid, yet returns 0 for a string that
\* denotes 0; only validate_duration refuses a value, exactly when it is
\* <= 0, and with an error of its own.
C10_ParseThenValidate ==
    /\ Parsed =>
         /\ AllBlank(value) <=> (~parsed.ok /\ parsed.error = "Empty duration")
         /\ value = <<"a", "b", "c">>
              => (~parsed.ok /\ parsed.error = "Invalid duration")
         /\ (Colons(value) > 2 \/ (Colons(value) > 0 /\ NonDigitInColonForm(value)))
              => (~parsed.ok /\ parsed.error = "Invalid time format")
         /\ value \in {<<"0">>, <<"0", ":", "0">>, <<"0", "s">>, <<"0", "0">>}
              => parsed = Return(0)
         /\ ~parsed.ok => (pc = "bad_parameter" /\ error = parsed.error
                           /\ error # TooSmall)
    /\ pc = "check_tick" => (parsed.ok /\ parsed.seconds > 0)
    /\ (pc = "bad_parameter" /\ parsed.ok)
         => (parsed.seconds <= 0 /\ error = TooSmall)
    /\ pc = "validate_returned" => (parsed.seconds > 0 /\ error = None)
    /\ pc = "validate_raised" => (parsed.seconds <= 0 /\ error = TooSmall)

\* C10 witness: "0" was parsed to 0 and then refused by validate_duration
C10_Witness ==
    /\ pc = "bad_parameter"
    /\ value = <<"0">>
    /\ parsed.ok /\ parsed.seconds = 0
    /\ error = TooSmall

(***************************************************************************)
(* Claims about main and run_timer, under Spec.                            *)
(***************************************************************************)
\* a frame has been displayed
Shown == frame.header.status # None
\* this step is an iteration of the loop
TickStep == pc = "loop" /\ pc' # "loop"
\* this step is an iteration of the loop that displayed a frame
FrameStep == pc = "loop" /\ pc' \in {"sleep", "finished"}
Ended == pc \in {"quit", "finished", "raised"}
Total == Units(parsed.seconds)

\* C1: the elapsed value of every tick is the clock time spent Running,
\* summed over the intervals between the instants the ticks sampled; time
\* spent Paused adds nothing and no interval is counted twice, whatever the
\* number of ticks and the length of the sleeps.
C1_ElapsedIsRunningTime ==
    (Shown /\ pc # "quit") => elapsed = ranFor

\* C1 witness: Running again after a pause during which the clock advanced
C1_Witness ==
    /\ pc = "sleep" /\ ~paused
    /\ 0 < elapsed_before_pause /\ elapsed_before_pause < elapsed
    /\ elapsed < clock - ClockOrigin

\* C2: a tick that reads q or Q, Running or Paused, ends the loop in that
\* tick as Quit, displays no frame and prints no "Time's up!"; "Time's up!"
\* is printed exactly when the loop ended on remaining <= 0.
C2_QuitIsSilent ==
    /\ [][(TickStep /\ key' \in {"q", "Q"})
            => (pc' = "quit" /\ out' = <<>> /\ frame' = frame /\ ~times_up')]_vars
    /\ [](times_up <=> pc = "finished")
    /\ [](times_up => (Shown /\ frame.header.remaining <= 0))

\* C2 witness: the loop was quit with Q while Paused
C2_Witness ==
    pc = "quit" /\ key = "Q" /\ paused /\ ~times_up

\* the percent of frame g is at least that of frame f
PercentAtLeast(g, f) ==
    g.header.percent.num * f.header.percent.den
      >= f.header.percent.num * g.header.percent.den

\* C3: from one frame to the next the percent never decreases, and it stays
\* the same when the earlier frame was displayed Paused (the frames of the
\* pausing tick, of the Paused ticks and of the resuming tick agree).
C3_PercentMonotone ==
    [][(FrameStep /\ Shown)
         => /\ PercentAtLeast(frame', frame)
            /\ frame.header.status = "Paused" => PercentAtLeast(frame, frame')]_vars

\* C3 witness: a Paused frame after the clock advanced during the pause
C3_Witness ==
    /\ pc = "sleep" /\ key = None
    /\ frame.header.status = "Paused"
    /\ frame.header.percent.num > 0
    /\ ranFor < clock - ClockOrigin

\* C4: the percent of every frame is min(100, (1 - remaining/total) * 100):
\* never above 100, 100 in a final frame of negative remaining, never
\* negative as remaining never exceeds total, and 25 when a quarter of the
\* total has elapsed.
C4_PercentRange ==
    Shown =>
      LET pct == frame.header.percent
          remaining == frame.header.remaining
      IN  /\ pct.den = Total
          /\ 0 <= pct.num /\ pct.num <= 100 * pct.den
          /\ remaining <= Total
          /\ remaining <= 0 => pct.num = 100 * pct.den
          /\ remaining >= 0 => pct.num * Total = 100 * (Total - remaining) * pct.den
          /\ 4 * (Total - remaining) = Total => pct.num = 25 * pct.den

\* C4 witness: a final frame of negative remaining, displayed as 100 percent
C4_Witness ==
    /\ pc = "finished"
    /\ frame.header.remaining < 0
    /\ frame.header.percent.num = 100 * frame.header.percent.den

\* C5: however the loop ends once cbreak mode was set (q, remaining <= 0,
\* an exception inside the loop), the terminal is back in the mode saved on
\* entry; it is in cbreak mode only while the loop runs.
C5_TerminalRestored ==
    /\ Ended => (term # "cbreak" /\ (old_settings # None => term = old_settings))
    /\ (pc \in {"loop", "sleep"} /\ ~use_windows)
         => (term = "cbreak" /\ old_settings = "cooked")

\* C5 witness: an exception ended a loop that had set cbreak mode
C5_Witness ==
    /\ pc = "raised" /\ error = "Exception"
    /\ ~use_windows /\ old_settings = "cooked" /\ term = "cooked"

\* the interactive loop has started: terminal mode acquired, or a key read,
\* or a frame displayed
LoopStarted ==
    \/ pc \in {"loop", "sleep", "quit", "finished"}
    \/ term = "cbreak"
    \/ old_settings # None
    \/ Shown

\* C6: the loop starts only after the duration parsed, to more than 0
\* seconds, and with tick > 0; a duration that is refused or a tick <= 0
\* ends main in a parameter error with no frame displayed and the terminal
\* untouched.
C6_ValidatedBeforeLoop ==
    /\ LoopStarted => (parsed.ok /\ parsed.seconds > 0 /\ ~tick.nan /\ tick.x > 0)
    /\ pc = "bad_parameter"
         => (~Shown /\ term = "cooked" /\ old_settings = None /\ error # None)
    /\ ((pc # "main" /\ (~parsed.ok \/ parsed.seconds <= 0))
          \/ (~tick.nan /\ tick.x <= 0))
         => pc \in {"main", "validate", "check_tick", "bad_parameter"}

\* C6 witness: the loop runs, a frame displayed
C6_Witness ==
    pc = "sleep" /\ Shown /\ term = "cbreak"

\* C7: a tick that reads no quit key displays exactly one frame, showing
\* the remaining time of that tick; it ends the loop as Finished, printing
\* "Time's up!" and not sleeping again, exactly when that remaining is <= 0.
C7_FinishOnExpiry ==
    /\ [][(TickStep /\ key' \notin {"q", "Q"})
            => /\ FrameStep
               /\ frame'.header.remaining = Total - elapsed'
               /\ (frame'.header.remaining <= 0) <=> (pc' = "finished")
               /\ pc' = "finished"
                    => (out' = <<"frame", "Time's up!">> /\ times_up')
               /\ pc' = "sleep" => (out' = <<"frame">> /\ ~times_up')]_vars
    /\ [][pc = "finished" => pc' = "finished"]_vars

\* C7 witness: the loop finished on a remaining of exactly 0
C7_Witness ==
    pc = "finished" /\ frame.header.remaining = 0 /\ times_up

\* C8: read_key never waits; with no key pending it returns None and
\* consumes nothing, with a key pending it returns one character, which it
\* consumes.
C8_ReadKeyReturnsPending ==
    [][TickStep
         => /\ ~blocked'
            /\ (fdbuf = <<>> /\ pybuf = <<>>)
                 => (key' = None /\ fdbuf' = fdbuf /\ pybuf' = pybuf)
            /\ (fdbuf # <<>> \/ pybuf # <<>>)
                 => /\ key' # None
                    /\ Len(fdbuf') + Len(pybuf') = Len(fdbuf) + Len(pybuf) - 1]_vars

(***************************************************************************)
(* build_header called on its own, for format_time: remaining times up to  *)
(* a minute in every clock unit, negative ones, and the times around the   *)
(* seconds of FormatSeconds.                                               *)
(***************************************************************************)
FormatSeconds == {-5, 0, 59, 60, 65, 3599, 3600, 3661, 35999, 36000, 360000}

FormatInputs ==
    (-Units(MaxNum + 1))..Units(61)
    \cup {Units(sec) + e : sec \in FormatSeconds, e \in (-Res)..Res}

InitFormat ==
    /\ pc = "call_build_header"
    /\ value = <<>>
    /\ tick = Float(1)
    /\ parsed \in {Return(0), Return(3700)}
    /\ error = None
    /\ use_windows = FALSE
    /\ term = "cooked"
    /\ old_settings = None
    /\ fdbuf = <<>>
    /\ pybuf = <<>>
    /\ clock = ClockOrigin
    /\ start = 0
    /\ elapsed_before_pause = 0
    /\ paused \in BOOLEAN
    /\ key = None
    /\ elapsed = 0
    /\ frame = NoFrame
    /\ out = <<>>
    /\ times_up = FALSE
    /\ blocked = FALSE
    /\ ranFor = 0

\* build_header(label, remaining, parsed.seconds, paused) called on its own
HeaderCall ==
    /\ pc = "call_build_header"
    /\ \E remaining \in FormatInputs :
         frame' = [header |-> build_header(remaining, Units(parsed.seconds), paused),
                   completed |-> 0]
    /\ pc' = "header_built"
    /\ UNCHANGED <<args, parsed, error, terminal, stdin, clock, locals, out,
                   times_up, blocked, ranFor>>

NextFormat == HeaderCall

SpecFormat == InitFormat /\ [][NextFormat]_vars

(***************************************************************************)
(* Claims about format_time, under SpecFormat.                             *)
(***************************************************************************)
\* the seconds a clock string MM:SS or HH:MM:SS reads as
ClockValue(t) == ColonForm(t).seconds

\* C11: format_time rounds to the nearest second (halves up), gives "00:00"
\* for every negative time, and writes HH:MM:SS exactly from one hour on and
\* MM:SS below, minutes and seconds within 0..59; 0 gives "00:00", 65
\* "01:05", 3661 "01:01:01".
C11_FormatTime ==
    Shown =>
      LET t == frame.header.time
          x == frame.header.remaining
          n == ClockValue(t)
          len == Len(t)
      IN  /\ ColonForm(t).ok
          /\ x < 0 => t = <<"0", "0", ":", "0", "0">>
          /\ x >= 0 => (Res * (2 * n - 1) <= 2 * x /\ 2 * x < Res * (2 * n + 1))
          /\ n < 3600 <=> (len = 5 /\ t[3] = ":")
          /\ n >= 3600 <=> (len >= 8 /\ t[len - 2] = ":" /\ t[len - 5] = ":")
          /\ IntOf(SubSeq(t, len - 1, len)) \in 0..59
          /\ IntOf(SubSeq(t, len - 4, len - 3)) \in 0..59
          /\ x = Units(0) => t = <<"0", "0", ":", "0", "0">>
          /\ x = Units(65) => t = <<"0", "1", ":", "0", "5">>
          /\ x = Units(3661) => t = <<"0", "1", ":", "0", "1", ":", "0", "1">>
          /\ x = Units(-5) => t = <<"0", "0", ":", "0", "0">>

\* C11 witness: a time one clock unit short of 3661 seconds, written 01:01:01
C11_Witness ==
    /\ pc = "header_built"
    /\ frame.header.remaining = Units(3661) - 1
    /\ frame.header.time = <<"0", "1", ":", "0", "1", ":", "0", "1">>

(***************************************************************************)
(* Claims about the keys and the loop, under Spec.                         *)
(***************************************************************************)
PauseKeys == {"p", "P", " "}
StartKeys == {"s", "S"}
QuitKeys == {"q", "Q"}

\* C12: a tick that reads p, P or space at clock reading now toggles the
\* state: Running becomes Paused with elapsed_before_pause grown by
\* now - start; Paused becomes Running with start = now and
\* elapsed_before_pause as it was.
C12_PauseToggles ==
    [][(TickStep /\ key' \in PauseKeys)
         => IF paused
            THEN /\ ~paused'
                 /\ start' = clock'
                 /\ elapsed_before_pause' = elapsed_before_pause
            ELSE /\ paused'
                 /\ start' = start
                 /\ elapsed_before_pause'
                      = elapsed_before_pause + (clock' - start)]_vars

\* C12 witness: paused a second time, with P, after running in two intervals
C12_Witness ==
    /\ pc = "sleep" /\ key = "P" /\ paused
    /\ elapsed_before_pause > clock - start
    /\ clock > start

\* C13: a tick that reads s or S while Paused resumes as the pause key does
\* (Running, start = now, elapsed_before_pause as it was); while Running it
\* changes none of paused, start, elapsed_before_pause.
C13_StartResumes ==
    [][(TickStep /\ key' \in StartKeys)
         => /\ ~paused'
            /\ elapsed_before_pause' = elapsed_before_pause
            /\ start' = IF paused THEN clock' ELSE start
            /\ pc' # "quit"]_vars

\* C13 witness: S was read while Running, some time after the start
C13_Witness ==
    /\ pc = "sleep" /\ key = "S" /\ ~paused
    /\ clock > start

\* C14: a tick that reads any other key changes none of paused, start,
\* elapsed_before_pause, does not quit, and displays the frame a tick
\* without a key displays.
C14_OtherKeysIgnored ==
    [][(TickStep /\ key' \notin {None} \cup QuitKeys \cup PauseKeys \cup StartKeys)
         => /\ paused' = paused
            /\ start' = start
            /\ elapsed_before_pause' = elapsed_before_pause
            /\ FrameStep
            /\ frame'.header.remaining
                 = Total - (elapsed_before_pause
                            + IF paused THEN 0 ELSE clock' - start)
            /\ frame'.header.status = IF paused THEN "Paused" ELSE "Running"
            /\ (pc' = "finished") <=> (frame'.header.remaining <= 0)]_vars

\* C14 witness: x was read while Paused and the timer is still Paused
C14_Witness ==
    pc = "sleep" /\ key = "x" /\ paused /\ frame.header.status = "Paused"

\* the keys typed and not yet returned by read_key, oldest first
Pending == pybuf \o fdbuf

\* C15: every iteration checks the keyboard once, taking the oldest pending
\* key if there is one, then updates the state, displays one frame (none
\* when it quits) and only then sleeps; pending keys are handled one per
\* tick in the order typed, a quit key in the tick that reads it.
C15_OneKeyPerTick ==
    /\ [][TickStep
            => /\ ~blocked'
               /\ key' = IF Pending = <<>> THEN None ELSE Head(Pending)
               /\ Pending' = IF Pending = <<>> THEN Pending ELSE Tail(Pending)
               /\ (pc' = "quit") <=> (key' \in QuitKeys)
               /\ out' = IF pc' = "quit" THEN <<>>
                         ELSE IF pc' = "finished" THEN <<"frame", "Time's up!">>
                         ELSE <<"frame">>]_vars
    /\ [][pc' = "sleep" => (TickStep /\ out' = <<"frame">>)]_vars
    /\ [][pc = "sleep" => (pc' \in {"sleep", "loop", "raised"})]_vars

\* C16: elapsed_before_pause never decreases, and changes only in a tick
\* that takes the timer from Running to Paused: ticks that stay Running or
\* stay Paused, and resuming ticks, leave it as it was.
C16_ElapsedBeforePauseFrozen ==
    [][/\ elapsed_before_pause' >= elapsed_before_pause
       /\ elapsed_before_pause' # elapsed_before_pause
            => (TickStep /\ ~paused /\ paused')]_vars

\* C16 witness: Running again after a pause, elapsed_before_pause kept
C16_Witness ==
    /\ pc = "sleep" /\ ~paused /\ key = None
    /\ elapsed_before_pause > 0
    /\ elapsed > elapsed_before_pause

\* C17: when KeyReader.__enter__ fails to get cbreak mode the error leaves
\* run_timer: no tick runs, no key is read, no frame and no "Time's up!"
\* appear, and the loop is never entered after the error.
C17_EnterFailureAborts ==
    error = "termios.error"
      => /\ pc = "raised"
         /\ ~Shown /\ ~times_up /\ out = <<>>
         /\ key = None /\ fdbuf = <<>> /\ pybuf = <<>>
         /\ clock = start /\ ranFor = 0
         /\ term = "cooked"

\* C17 witness: setcbreak failed after the settings were saved
C17_Witness ==
    pc = "raised" /\ error = "termios.error" /\ old_settings = "cooked"

\* C19: a tick that starts Paused never finishes the loop, however far the
\* clock has advanced; it leaves Paused only on p, P, space, s or S (to
\* Running) or on q or Q (to Quit).  A tick that finishes with paused set is
\* a tick that read the pause key while Running.
C19_PausedNeverExpires ==
    /\ (pc \in {"loop", "sleep"} /\ paused) => Total - elapsed_before_pause > 0
    /\ [][(TickStep /\ paused)
            => /\ pc' # "finished"
               /\ (pc' = "quit") <=> (key' \in QuitKeys)
               /\ ~paused' <=> (key' \in PauseKeys \cup StartKeys)]_vars
    /\ [][(TickStep /\ pc' = "finished" /\ paused')
            => (~paused /\ key' \in PauseKeys
                /\ Total - elapsed_before_pause' <= 0)]_vars

\* C19 witness: still Paused after the clock passed the whole duration
C19_Witness ==
    /\ pc = "sleep" /\ paused /\ key = None
    /\ clock - ClockOrigin >= Total
    /\ frame.header.remaining > 0

\* C20: in every frame the bar's completed amount is min(elapsed, total),
\* within 0..total, so that completed / total is the header's percent, and
\* the header's status is the pause state the tick's key left.
C20_HeaderMatchesBar ==
    (Shown /\ pc \in {"loop", "sleep", "quit", "finished", "raised"}) =>
      /\ 0 <= frame.completed /\ frame.completed <= Total
      /\ frame.completed = IF elapsed <= Total THEN elapsed ELSE Total
      /\ 100 * frame.completed * frame.header.percent.den
           = frame.header.percent.num * Total
      /\ frame.header.status = IF paused THEN "Paused" ELSE "Running"

\* C20 witness: a final frame after the clock overshot the duration
C20_Witness ==
    /\ pc = "finished"
    /\ elapsed > Total
    /\ frame.completed = Total

(***************************************************************************)
(* The loop under a clock that advances across every sleep, and fair       *)
(* scheduling: the interpreter goes on executing the program, and          *)
(* time.sleep(tick) returns once at least tick seconds have passed.  No    *)
(* exception interrupts the loop.  While Paused the loop uses a clock      *)
(* reading only as the new start of a resuming tick, and after it only     *)
(* differences now - start, so a run and the same run with its Paused      *)
(* intervals cut out go through the same frames: the clock here is the     *)
(* monotonic clock less the time spent Paused.                             *)
(***************************************************************************)
LiveLastClock == LastClock + Units(MaxNum) + MaxAdvance

\* line 184: time.sleep(tick) returns after tick seconds or more
LiveSleep ==
    /\ pc = "sleep"
    /\ \E d \in Units(tick.x)..(Units(tick.x) + MaxAdvance) :
         /\ clock + d <= LiveLastClock
         /\ clock' = IF paused THEN clock ELSE clock + d
         /\ ranFor' = IF paused THEN ranFor ELSE ranFor + d
    /\ pc' = "loop"
    /\ key' = None
    /\ out' = <<>>
    /\ UNCHANGED <<args, parsed, error, terminal, stdin, start,
                   elapsed_before_pause, paused, elapsed, frame, times_up,
                   blocked>>

\* lines 155-186, the clock read right after the sleep
LiveTick == TickAt(clock)

LiveProgram ==
    \/ MainParse
    \/ MainValidate
    \/ MainTick
    \/ RunTimerSetup
    \/ EnterKeyReader
    \/ EnterFails
    \/ LiveTick
    \/ LiveSleep

NextLive ==
    \/ LiveProgram
    \/ TypeKey

SpecLive == Init /\ [][NextLive]_vars /\ WF_vars(LiveProgram)

\* C18: with the clock advancing by at least tick over every sleep and the
\* loop scheduled fairly, a loop that was entered reaches Finished or Quit
\* unless the timer stays Paused forever from some point on; when no key is
\* ever typed it reaches Finished.
C18_Terminates ==
    /\ <>(pc = "loop") => (<>(pc \in {"finished", "quit"}) \/ <>[]paused)
    /\ (<>(pc = "loop") /\ [](fdbuf = <<>>)) => <>(pc = "finished")

\* C18 witness: Finished by running out after a pause and a resume
C18_Witness ==
    /\ pc = "finished" /\ ~paused
    /\ elapsed_before_pause > 0
    /\ elapsed > elapsed_before_pause

=============================================================================
